---- MODULE Spec2Model ----
(***************************************************************************)
(* Watercooler: an Express/SQLite backend (src/server.ts) and a Three.js   *)
(* client (src/public/app.js, first program of the file, lines 1-1727).    *)
(* The client polls four endpoints, stores the payloads in module-level    *)
(* variables and reconciles a scene of desks, connectors and particles.    *)
(*                                                                         *)
(* Specifications over the same variables:                                 *)
(*   Spec              the asynchronous client: loadData and showDeskDialog*)
(*                     advance one await at a time and may overlap;        *)
(*   SpecVillage       the reconcile pass under changing databases: a      *)
(*                     refresh runs without another handler in between;    *)
(*   SpecExamples, SpecServer, SpecEffects, SpecActions, SpecBlank,        *)
(*   SpecOwnership, SpecOverlap                                            *)
(*                     the backend, the effects of the scene, the outbound *)
(*                     handlers and overlapping refreshes;                 *)
(*   SpecColor, SpecAmbient, SpecParticles, SpecTimer                      *)
(*                     getAgentColor, the render tick, the particle        *)
(*                     closures and the refresh timer on their own.        *)
(***************************************************************************)
EXTENDS Integers, Sequences, FiniteSets, TLC

VARIABLES
    \* ---- backend (src/server.ts) ----
    db,              \* rows of the messages table, in rowid order
    tables,          \* the tables that exist: "messages" in the mailbox database,
                     \* "coworkers" in the coworker database
    coworkerPath,    \* TRUE iff a coworker database was given and could be opened
    coworkerDb,      \* names in the coworkers table
    avatarPath,      \* TRUE iff an avatar database was given on the command line
    avatarDb,        \* latest_tool_usage: name -> tool_name
    \* ---- client (src/public/app.js:8-16, 1426-1427) ----
    config, messages, allMessages, recipients, avatarStates,
    agentMeshes,     \* Map name -> desk group
    sceneDesks,      \* names whose desk group is a child of the scene
    connectionLines, \* lines and markers recorded for the next clearConnections
    sceneLines,      \* lines and markers that are children of the scene
    gpu,             \* <<owner, kind>> of GPU resources created and not disposed
    pendingSpawns,   \* setTimeout callbacks of createConnectionLine not yet run
    particles,       \* particles that are children of the scene
    dialogActive, currentDeskAgent, currentTab,
    \* ---- control ----
    calls,           \* the loadData invocations: position and locals of each
    dialogs,         \* the showDeskDialog invocation in flight
    writer,          \* which loadData invocation last wrote each client variable
    uv,              \* record of the last updateVillage call
    ld,              \* record of the last invocation in calls that came to an end
    outbound,        \* the handler of the user's last outbound action
    \* ---- rendering and timers ----
    colorName,       \* the string getAgentColor is called with, as char codes
    colors,          \* the palette indices its calls returned
    ambient,         \* the ambient state of the scene in two runs of the page
    clock,           \* Date.now(), in units of half the duration of a particle
    flights,         \* the closures of createMessageParticle
    timer            \* setInterval(loadData, 5000) and the refreshes it started

serverVars == <<db, tables, coworkerPath, coworkerDb, avatarPath, avatarDb>>
dataVars   == <<config, messages, allMessages, recipients, avatarStates>>
sceneVars  == <<agentMeshes, sceneDesks, connectionLines, sceneLines, gpu, pendingSpawns, particles>>
dialogVars == <<dialogActive, currentDeskAgent, currentTab>>
ctlVars    == <<calls, dialogs, writer, uv, ld>>
auxVars    == <<colorName, colors, ambient, clock, flights, timer>>
vars       == <<serverVars, dataVars, sceneVars, dialogVars, ctlVars, outbound, auxVars>>

----------------------------------------------------------------------------
\* Bounds of the model
MaxRows  == 2      \* rows the messages table may hold
MaxCalls == 2      \* loadData invocations in a behaviour of Spec
MaxTime  == 2      \* timestamps a row may carry
MaxEffects == 2    \* timers and particles that may be under way when a refresh starts
MaxAgents == 8     \* identities for which the layout radius is computed
MaxLen   == 6      \* characters of a string given to getAgentColor
MaxClock == 4      \* the last value of Date.now() at which a frame or a timer runs

\* Program constants
PLATFORM_HEIGHT == 2
numMarkers == 4
MinRadius == 10
MaxRadius == 20
RadiusPerAgent == 3

\* The user given on the command line, and the field of a record that is absent
User    == "Carol"
Missing == "undefined"
NoTool  == "null"

\* String.prototype.toLowerCase on the strings of the model
toLowerCase(s) ==
    CASE s = "Alice" -> "alice"
      [] s = "Bob"   -> "bob"
      [] s = "Carol" -> "carol"
      [] OTHER       -> s

\* Array.prototype.sort on strings: UTF-16 code unit order
CodeUnitOrder == <<"", "Alice", "Bob", "Carol", "alice", "bob", "carol">>

Rank(s) == CHOOSE i \in DOMAIN CodeUnitOrder : CodeUnitOrder[i] = s

Range(s) == {s[i] : i \in DOMAIN s}

RECURSIVE SortInsert(_, _)
SortInsert(sorted, x) ==
    IF sorted = <<>> THEN <<x>>
    ELSE IF Rank(x) < Rank(Head(sorted)) THEN <<x>> \o sorted
    ELSE <<Head(sorted)>> \o SortInsert(Tail(sorted), x)

RECURSIVE sort(_)
sort(s) == IF s = <<>> THEN <<>> ELSE SortInsert(sort(Tail(s)), Head(s))

RECURSIVE SetToSeq(_)
SetToSeq(S) ==
    IF S = {} THEN <<>>
    ELSE LET x == CHOOSE y \in S : \A z \in S : Rank(y) <= Rank(z)
         IN <<x>> \o SetToSeq(S \ {x})

\* ORDER BY timestamp DESC; SQL leaves the order of rows of equal timestamp
\* open, here they stay in rowid order
RECURSIVE InsertDesc(_, _)
InsertDesc(sorted, r) ==
    IF sorted = <<>> THEN <<r>>
    ELSE IF Head(sorted).timestamp >= r.timestamp
         THEN <<Head(sorted)>> \o InsertDesc(Tail(sorted), r)
         ELSE <<r>> \o sorted

RECURSIVE OrderByTimestampDesc(_)
OrderByTimestampDesc(rows) ==
    IF rows = <<>> THEN <<>>
    ELSE InsertDesc(OrderByTimestampDesc(SubSeq(rows, 1, Len(rows) - 1)), rows[Len(rows)])

Min(a, b) == IF a < b THEN a ELSE b
Max(a, b) == IF a > b THEN a ELSE b

\* A parsed JSON body: an array with its items, or an object such as {error: ...}
JsonArray(items) == [isArray |-> TRUE, items |-> items]
ErrorObject      == [isArray |-> FALSE, items |-> <<>>]

----------------------------------------------------------------------------
\* Backend endpoints (src/server.ts)

\* GET /api/config
ApiConfig == [user |-> User, avatar |-> avatarPath]

\* tableExists(db, 'messages')  (server.ts:82-94)
tableExists(tableName) == tableName \in tables

\* The inbox query with the user as typed on the command line
ApiMessages_UserAsTyped ==
    IF ~tableExists("messages") THEN JsonArray(<<>>)
    ELSE JsonArray(OrderByTimestampDesc(SelectSeq(db, LAMBDA r : r.recipient = User)))

\* GET /api/messages: WHERE recipient = lower(user) ORDER BY timestamp DESC
ApiMessages ==
    IF ~tableExists("messages") THEN JsonArray(<<>>)
    ELSE JsonArray(OrderByTimestampDesc(
             SelectSeq(db, LAMBDA r : r.recipient = toLowerCase(User))))

\* GET /api/messages/all: ORDER BY timestamp DESC
ApiMessagesAll ==
    IF ~tableExists("messages") THEN JsonArray(<<>>)
    ELSE JsonArray(OrderByTimestampDesc(db))

\* The roster with the names as the table spells them
ApiCoworkers_NamesAsStored ==
    LET allCoworkers == IF coworkerPath /\ tableExists("coworkers") THEN coworkerDb ELSE {}
    IN JsonArray(sort(SetToSeq(allCoworkers \ {toLowerCase(User)})))

\* GET /api/coworkers: lower-cased names without the user, sorted; a missing
\* connection or a failing SELECT leaves the set empty
ApiCoworkers ==
    LET allCoworkers == IF coworkerPath /\ tableExists("coworkers")
                        THEN {toLowerCase(n) : n \in coworkerDb}
                        ELSE {}
    IN JsonArray(sort(SetToSeq(allCoworkers \ {toLowerCase(User)})))

\* GET /api/avatars
EmptyMap == [n \in {} |-> NoTool]

ApiAvatars == IF avatarPath THEN avatarDb ELSE EmptyMap

----------------------------------------------------------------------------
\* Client: the scene (src/public/app.js)

\* The identities the model can produce, and the per-identity counters at zero
Identities == {"", "alice", "bob", "carol"}
NoRegens   == [n \in Identities |-> 0]

\* The client state as one record, so that the synchronous functions of app.js
\* compose; threw is set when a function is left by an exception.
Client ==
    [config |-> config, messages |-> messages, allMessages |-> allMessages,
     recipients |-> recipients, avatarStates |-> avatarStates,
     agentMeshes |-> agentMeshes, sceneDesks |-> sceneDesks,
     connectionLines |-> connectionLines, sceneLines |-> sceneLines,
     gpu |-> gpu, pendingSpawns |-> pendingSpawns, particles |-> particles,
     dialogActive |-> dialogActive, currentDeskAgent |-> currentDeskAgent,
     currentTab |-> currentTab, uv |-> uv, threw |-> FALSE]

\* The children of a desk group that own GPU resources (app.js:621-819): the
\* furniture meshes, the screen light and the nameplate sprite
DeskChildren ==
    { [type |-> "Mesh",       owns |-> {"geometry", "material"}],
      [type |-> "PointLight", owns |-> {}],
      [type |-> "Sprite",     owns |-> {"spriteMaterial", "texture"}] }

DeskResources == UNION {ch.owns : ch \in DeskChildren}

\* avatarStates[name]?.tool_name || null
ToolOf(states, name) == IF name \in DOMAIN states THEN states[name] ELSE NoTool

DeskPosition_Unclamped(index, count) ==
    [index |-> index, count |-> count, radius |-> count * RadiusPerAgent,
     y |-> PLATFORM_HEIGHT]

\* app.js:993-999, 1010: slot index of count on the layout circle
DeskPosition(index, count) ==
    [index |-> index, count |-> count,
     radius |-> Min(MaxRadius, Max(MinRadius, count * RadiusPerAgent)),
     y |-> PLATFORM_HEIGHT]

\* The nameplate as drawn by createAgentDesk and updateDeskLabel: neutral tint
PlainLabel(name, toolName) ==
    [name |-> name, toolName |-> toolName, badge |-> "neutral", count |-> 0]

MapPut(f, k, v) == [x \in DOMAIN f \cup {k} |-> IF x = k THEN v ELSE f[x]]
MapDel(f, k)    == [x \in DOMAIN f \ {k} |-> f[x]]

\* app.js:615-825
createAgentDesk(c, name, position, toolName) ==
    [c EXCEPT
       !.agentMeshes = MapPut(@, name, [position |-> position,
                                       label |-> PlainLabel(name, toolName)]),
       !.sceneDesks  = @ \cup {name},
       !.gpu         = @ \cup {<<name, k>> : k \in DeskResources},
       !.uv.regens[name] = @ + 1]

\* app.js:827-867: a new CanvasTexture replaces the map of the sprite material
updateDeskLabel(c, name, toolName) ==
    [c EXCEPT
       !.agentMeshes[name].label = PlainLabel(name, toolName),
       !.gpu = @ \cup {<<name, "texture">>},
       !.uv.regens[name] = @ + 1]

RECURSIVE RemoveOne(_, _)
RemoveOne(s, x) ==
    IF s = <<>> THEN <<>>
    ELSE IF Head(s) = x THEN Tail(s)
    ELSE <<Head(s)>> \o RemoveOne(Tail(s), x)

RECURSIVE RemoveAll(_, _)
RemoveAll(s, xs) ==
    IF xs = <<>> THEN s ELSE RemoveAll(RemoveOne(s, Head(xs)), Tail(xs))

\* The geometry and the material each line, marker and particle is made with
EffectResources == {"geometry", "material"}

Owned(owner) == {<<owner, k>> : k \in EffectResources}

\* The list emptied while its objects stay in the scene
clearConnections_ListOnly(c) == [c EXCEPT !.connectionLines = <<>>]

\* app.js:974-977: the objects leave the scene and the list; nothing is
\* disposed, so what they were made with stays allocated
clearConnections(c) ==
    [c EXCEPT !.sceneLines = RemoveAll(@, c.connectionLines),
              !.connectionLines = <<>>,
              !.gpu = IF c.connectionLines = <<>> THEN @
                      ELSE (@ \ Owned("connector")) \cup Owned("removed connector")]

\* app.js:916-972: one line, numMarkers markers, and the particle timer
ConnectorObjects(from, to) ==
    <<[kind |-> "line", from |-> from, to |-> to, t |-> 0]>> \o
    [i \in 1..numMarkers |-> [kind |-> "marker", from |-> from, to |-> to, t |-> i]]

createConnectionLine(c, from, to) ==
    [c EXCEPT
       !.sceneLines      = @ \o ConnectorObjects(from, to),
       !.connectionLines = @ \o ConnectorObjects(from, to),
       !.gpu             = @ \cup Owned("connector"),
       !.pendingSpawns   = Append(@, [from |-> from, to |-> to, current |-> TRUE]),
       !.uv.built        = @ + 1]

Malformed(m) == m.sender = Missing \/ m.recipient = Missing

\* Set.prototype.add on the insertion-ordered Set
AddAgent(agents, a) ==
    IF a \in Range(agents) THEN agents ELSE Append(agents, a)

\* The roster left out of the identities
AddRoster_None(agents, rs) == agents

RECURSIVE AddRoster(_, _)
AddRoster(agents, rs) ==
    IF rs = <<>> THEN agents
    ELSE AddRoster(AddAgent(agents, toLowerCase(Head(rs))), Tail(rs))

\* app.js:986-989: m.sender.toLowerCase() throws on a record without sender
RECURSIVE AddParticipants(_, _)
AddParticipants(agents, ms) ==
    IF ms = <<>> THEN [agents |-> agents, threw |-> FALSE]
    ELSE IF Malformed(Head(ms)) THEN [agents |-> agents, threw |-> TRUE]
    ELSE AddParticipants(
             AddAgent(AddAgent(agents, toLowerCase(Head(ms).sender)),
                      toLowerCase(Head(ms).recipient)),
             Tail(ms))

\* The message list whose participants become identities (app.js:986)
ParticipantSource(c) == c.messages

\* The identities in sorted order instead of insertion order
AllAgents_Sorted(c) ==
    LET start == AddRoster(<<toLowerCase(c.config.user)>>, c.recipients.items)
        r     == AddParticipants(start, ParticipantSource(c).items)
    IN [agents |-> sort(r.agents), threw |-> r.threw]

\* app.js:983-992: Array.from(allAgents)
AllAgents(c) ==
    IF ~c.recipients.isArray \/ ~ParticipantSource(c).isArray
    THEN [agents |-> <<>>, threw |-> TRUE]
    ELSE AddParticipants(
             AddRoster(<<toLowerCase(c.config.user)>>, c.recipients.items),
             ParticipantSource(c).items)

\* app.js:995-1014
RECURSIVE PlaceAgents(_, _, _)
PlaceAgents(c, agents, i) ==
    IF i > Len(agents) THEN c
    ELSE LET agent    == agents[i]
             position == DeskPosition(i - 1, Len(agents))
             toolName == ToolOf(c.avatarStates, toLowerCase(agent))
         IN PlaceAgents(
                IF agent \notin DOMAIN c.agentMeshes
                THEN createAgentDesk(c, agent, position, toolName)
                ELSE updateDeskLabel(
                         [c EXCEPT !.agentMeshes[agent].position = position],
                         agent, toolName),
                agents, i + 1)

\* app.js:1023-1034: desk.traverse disposes what the Mesh children own
Disposed == UNION {ch.owns : ch \in {d \in DeskChildren : d.type = "Mesh"}}

\* app.js:1017-1039
StaleDesks(c, agents) == {name \in DOMAIN c.agentMeshes : name \notin Range(agents)}

\* A reconcile pass that never removes a desk
RemoveStale_KeepsAll(c, agents) == c

RemoveStale(c, agents) ==
    LET stale == StaleDesks(c, agents)
    IN [c EXCEPT
          !.sceneDesks   = @ \ stale,
          !.gpu          = @ \ {<<name, k>> : name \in stale, k \in Disposed},
          !.agentMeshes  = [x \in DOMAIN @ \ stale |-> @[x]]]

\* app.js:1046
Eligible(c, msg) ==
    /\ toLowerCase(msg.sender) \in DOMAIN c.agentMeshes
    /\ toLowerCase(msg.recipient) \in DOMAIN c.agentMeshes
    /\ ~msg.read

\* app.js:1042-1052
RECURSIVE BuildConnections(_, _)
BuildConnections(c, ms) ==
    IF ms = <<>> THEN c
    ELSE IF Malformed(Head(ms)) THEN [c EXCEPT !.threw = TRUE]
    ELSE BuildConnections(
             IF Eligible(c, Head(ms))
             THEN createConnectionLine(c, toLowerCase(Head(ms).sender),
                                          toLowerCase(Head(ms).recipient))
             ELSE c,
             Tail(ms))

\* The two tints tested in the other order
BadgeState_InfoFirst(unreadFromAgent, unreadCount) ==
    IF unreadCount > 0 THEN [badge |-> "info", count |-> unreadCount]
    ELSE IF unreadFromAgent > 0 THEN [badge |-> "alert", count |-> unreadFromAgent]
    ELSE [badge |-> "neutral", count |-> 0]

\* app.js:1553-1584: tint and number of the nameplate
BadgeState(unreadFromAgent, unreadCount) ==
    IF unreadFromAgent > 0 THEN [badge |-> "alert", count |-> unreadFromAgent]
    ELSE IF unreadCount > 0 THEN [badge |-> "info", count |-> unreadCount]
    ELSE [badge |-> "neutral", count |-> 0]

\* app.js:1528-1538: allMessages.filter(...).length
UnreadCount(c, name) ==
    Cardinality({i \in DOMAIN c.allMessages.items :
        LET m == c.allMessages.items[i]
        IN /\ toLowerCase(m.recipient) = toLowerCase(name)
           /\ toLowerCase(m.sender) = toLowerCase(c.config.user)
           /\ ~m.read})

UnreadFromAgent(c, name) ==
    Cardinality({i \in DOMAIN c.allMessages.items :
        LET m == c.allMessages.items[i]
        IN /\ toLowerCase(m.sender) = toLowerCase(name)
           /\ toLowerCase(m.recipient) = toLowerCase(c.config.user)
           /\ ~m.read})

BadgeLabel(c, name) ==
    LET b == BadgeState(UnreadFromAgent(c, name), UnreadCount(c, name))
    IN [name |-> name, toolName |-> ToolOf(c.avatarStates, toLowerCase(name)),
        badge |-> b.badge, count |-> b.count]

\* app.js:1526-1602
updateDeskLabels(c) ==
    IF DOMAIN c.agentMeshes = {} THEN c
    ELSE IF ~c.allMessages.isArray
            \/ \E i \in DOMAIN c.allMessages.items : Malformed(c.allMessages.items[i])
    THEN [c EXCEPT !.threw = TRUE]
    ELSE [c EXCEPT
            !.agentMeshes = [name \in DOMAIN @ |->
                                [@[name] EXCEPT !.label = BadgeLabel(c, name)]],
            !.gpu = @ \cup {<<name, "texture">> : name \in DOMAIN c.agentMeshes},
            !.uv.regens = [n \in Identities |->
                              IF n \in DOMAIN c.agentMeshes THEN @[n] + 1 ELSE @[n]]]

\* The record of an updateVillage call as it starts
NewCall(identical) ==
    [ran |-> TRUE, completed |-> FALSE, agents |-> <<>>, regens |-> NoRegens,
     built |-> 0, spawned |-> 0, identical |-> identical]

\* app.js:979-1056
updateVillage(c0) ==
    LET c   == clearConnections(c0)
        ids == AllAgents(c)
    IN IF ids.threw THEN [c EXCEPT !.threw = TRUE]
       ELSE LET c1 == RemoveStale(PlaceAgents([c EXCEPT !.uv.agents = ids.agents],
                                              ids.agents, 1),
                                  ids.agents)
                c2 == IF c1.allMessages.isArray
                      THEN BuildConnections(c1, c1.allMessages.items)
                      ELSE [c1 EXCEPT !.threw = TRUE]
                c3 == IF c2.threw THEN c2 ELSE updateDeskLabels(c2)
            IN IF c3.threw THEN c3
               ELSE [c3 EXCEPT !.uv.completed = TRUE]

\* app.js:1474-1519: every filter reads sender or recipient of every message
updateDeskDialogContent(c) ==
    IF c.currentDeskAgent = Missing THEN c
    ELSE IF ~c.allMessages.isArray
            \/ \E i \in DOMAIN c.allMessages.items : Malformed(c.allMessages.items[i])
    THEN [c EXCEPT !.threw = TRUE]
    ELSE c

\* app.js:1200-1275: the unread count, recipients.sort() in place, the cards
\* of the inbox (renderMessageCard reads msg.recipient), the open dialog
updateUI(c) ==
    IF ~c.messages.isArray \/ ~c.recipients.isArray
       \/ \E i \in DOMAIN c.messages.items :
             ~c.messages.items[i].read /\ c.messages.items[i].recipient = Missing
    THEN [c EXCEPT !.threw = TRUE]
    ELSE LET c1 == [c EXCEPT !.recipients.items = sort(@)]
         IN IF \E i \in DOMAIN c1.messages.items : c1.messages.items[i].recipient = Missing
            THEN [c1 EXCEPT !.threw = TRUE]
            ELSE IF c1.dialogActive THEN updateDeskDialogContent(c1) ELSE c1

\* The timers still pending belong to an earlier call from now on
Earlier(spawns) == [i \in DOMAIN spawns |-> [spawns[i] EXCEPT !.current = FALSE]]

\* app.js:1177-1178, with the record of the updateVillage call
Apply(c, identical) ==
    LET c1 == updateUI(c)
    IN IF c1.threw THEN c1
       ELSE updateVillage([c1 EXCEPT !.uv = NewCall(identical),
                                     !.pendingSpawns = Earlier(@)])

\* Array.isArray(x) ? x : []   (app.js:1162-1164)
ArrayOrEmpty(x) == IF x.isArray THEN x ELSE JsonArray(<<>>)

\* The client variables take the values of the record
Install(c) ==
    /\ config' = c.config
    /\ messages' = c.messages
    /\ allMessages' = c.allMessages
    /\ recipients' = c.recipients
    /\ avatarStates' = c.avatarStates
    /\ agentMeshes' = c.agentMeshes
    /\ sceneDesks' = c.sceneDesks
    /\ connectionLines' = c.connectionLines
    /\ sceneLines' = c.sceneLines
    /\ gpu' = c.gpu
    /\ pendingSpawns' = c.pendingSpawns
    /\ particles' = c.particles
    /\ dialogActive' = c.dialogActive
    /\ currentDeskAgent' = c.currentDeskAgent
    /\ currentTab' = c.currentTab
    /\ uv' = c.uv

----------------------------------------------------------------------------
\* Initial state

EmptyDesks == [n \in {} |-> [position |-> DeskPosition(0, 1), label |-> PlainLabel(n, NoTool)]]

NoCall ==
    [ran |-> FALSE, completed |-> FALSE, agents |-> <<>>, regens |-> NoRegens,
     built |-> 0, spawned |-> 0, identical |-> FALSE]

\* No outbound action yet. kind: the handler; pc: its position; targets: the
\* recipients of the send requests it issued; roster: the length of recipients
\* when it was invoked; ids: the messages it marks read; returned: every
\* request it awaited resolved; ok: every response was ok; forced: the
\* loadData invocation it started (0: none)
NoAction ==
    [kind |-> "none", pc |-> "idle", targets |-> <<>>, roster |-> 0, ids |-> {},
     returned |-> FALSE, ok |-> FALSE, forced |-> 0]

\* The variables a refresh writes (app.js:1156-1164)
Payloads == {"config", "messages", "recipients", "allMessages"}

\* Nothing rendered, hashed or scheduled yet
AuxIdle ==
    /\ colorName = <<>>
    /\ colors = <<>>
    /\ ambient = <<>>
    /\ clock = 0
    /\ flights = <<>>
    /\ timer = [set |-> FALSE]

\* app.js:8-16, 1426-1427
ClientAtLoad ==
    /\ config = [user |-> "", avatar |-> FALSE]
    /\ messages = JsonArray(<<>>)
    /\ allMessages = JsonArray(<<>>)
    /\ recipients = JsonArray(<<>>)
    /\ avatarStates = EmptyMap
    /\ agentMeshes = EmptyDesks
    /\ sceneDesks = {}
    /\ connectionLines = <<>>
    /\ sceneLines = <<>>
    /\ gpu = {}
    /\ pendingSpawns = <<>>
    /\ particles = <<>>
    /\ dialogActive = FALSE
    /\ currentDeskAgent = Missing
    /\ currentTab = "received"
    /\ calls = [k \in 1..MaxCalls |-> [pc |-> "idle", changed |-> FALSE]]
    /\ dialogs = "idle"
    /\ writer = [v \in Payloads |-> 0]
    /\ uv = NoCall
    /\ ld = [finished |-> FALSE, failed |-> FALSE, changed |-> FALSE]
    /\ outbound = NoAction

InitClient == ClientAtLoad /\ AuxIdle

\* Rows other agents and this backend put into the mailbox
Row(sender, recipient, read) ==
    [sender |-> sender, recipient |-> recipient, read |-> read]

MailRows ==
    { Row("Alice", "carol", FALSE), Row("carol", "alice", FALSE),
      Row("alice", Missing, FALSE) }

\* A row as the table holds it: id INTEGER PRIMARY KEY AUTOINCREMENT,
\* recipient, sender, message, timestamp, read (server.ts:211-220)
Stored(row, id, timestamp) ==
    [id |-> id, recipient |-> row.recipient, sender |-> row.sender,
     message |-> "hi", timestamp |-> timestamp, read |-> row.read]

\* A mailbox written one row per millisecond
Store(mailbox) == [i \in DOMAIN mailbox |-> Stored(mailbox[i], i, i)]

AllTables == {"messages", "coworkers"}

CoworkerNames == {"Bob"}
ToolNames == {"bash"}

\* Databases as the backend finds them when it starts (server.ts:54-79)
Startup(mailbox, coworkers, avatars) ==
    [db |-> Store(mailbox), coworkerPath |-> coworkers # {}, coworkerDb |-> coworkers,
     avatarPath |-> avatars # EmptyMap, avatarDb |-> avatars]

StartupStates ==
    { Startup(<<>>, {"Bob"}, EmptyMap),
      Startup(<<Row(Missing, "carol", FALSE)>>, {}, EmptyMap),
      Startup(<<Row("Alice", "carol", FALSE)>>, {}, MapPut(EmptyMap, "alice", "bash")) }

InitVillage ==
    /\ db = <<>>
    /\ tables = AllTables
    /\ coworkerPath = TRUE
    /\ coworkerDb = {}
    /\ avatarPath \in BOOLEAN
    /\ avatarDb = EmptyMap
    /\ InitClient

Init ==
    /\ \E s \in StartupStates :
          /\ db = s.db
          /\ tables = AllTables
          /\ coworkerPath = s.coworkerPath
          /\ coworkerDb = s.coworkerDb
          /\ avatarPath = s.avatarPath
          /\ avatarDb = s.avatarDb
    /\ InitClient

----------------------------------------------------------------------------
\* The databases change under the backend

\* Another agent writes a row into the messages table
MailboxInsert(row, timestamp) ==
    /\ tableExists("messages")
    /\ Len(db) < MaxRows
    /\ db' = Append(db, Stored(row, Len(db) + 1, timestamp))
    /\ UNCHANGED <<tables, coworkerPath, coworkerDb, avatarPath, avatarDb,
                   dataVars, sceneVars, dialogVars, ctlVars>>
    /\ UNCHANGED <<outbound, auxVars>>

MarkRead_AllRows(rows, id) ==
    [i \in DOMAIN rows |-> [rows[i] EXCEPT !.read = TRUE]]

\* UPDATE messages SET read = 1 WHERE id = ?   (server.ts:243)
MarkRead(rows, id) ==
    [i \in DOMAIN rows |->
        IF rows[i].id = id THEN [rows[i] EXCEPT !.read = TRUE] ELSE rows[i]]

\* POST /api/messages/:id/read (server.ts:235-248): UPDATE messages SET
\* read = 1 WHERE id = ?; 404 and no change without the table
PostMarkRead(id) ==
    /\ tableExists("messages")
    /\ \E i \in DOMAIN db : db[i].id = id /\ ~db[i].read
    /\ db' = MarkRead(db, id)
    /\ UNCHANGED <<tables, coworkerPath, coworkerDb, avatarPath, avatarDb,
                   dataVars, sceneVars, dialogVars, ctlVars>>
    /\ UNCHANGED <<outbound, auxVars>>

InsertSent_Read(rows, to, timestamp) ==
    Append(rows, [id |-> Len(rows) + 1, recipient |-> toLowerCase(to),
                  sender |-> toLowerCase(User), message |-> "hi",
                  timestamp |-> timestamp, read |-> TRUE])

\* INSERT INTO messages (recipient, sender, message, timestamp, read)
\* VALUES (to.toLowerCase(), user.toLowerCase(), message, Date.now(), 0)
\* (server.ts:224-228)
InsertSent(rows, to, timestamp) ==
    Append(rows, [id |-> Len(rows) + 1, recipient |-> toLowerCase(to),
                  sender |-> toLowerCase(User), message |-> "hi",
                  timestamp |-> timestamp, read |-> FALSE])

\* POST /api/send (server.ts:205-233): the table is created when missing, then
\* to.toLowerCase() throws on a body without "to" and nothing is inserted;
\* the "from" of the body is not read
PostSend(to, from, timestamp) ==
    /\ Len(db) < MaxRows
    /\ tables' = tables \cup {"messages"}
    /\ db' = IF to = Missing THEN db ELSE InsertSent(db, to, timestamp)
    /\ UNCHANGED <<coworkerPath, coworkerDb, avatarPath, avatarDb,
                   dataVars, sceneVars, dialogVars, ctlVars>>
    /\ UNCHANGED <<outbound, auxVars>>

\* Another agent adds a name to the coworkers table or deletes it
CoworkerDbWrite(name) ==
    /\ tableExists("coworkers")
    /\ coworkerDb' = IF name \in coworkerDb THEN coworkerDb \ {name}
                     ELSE coworkerDb \cup {name}
    /\ UNCHANGED <<db, tables, coworkerPath, avatarPath, avatarDb,
                   dataVars, sceneVars, dialogVars, ctlVars>>
    /\ UNCHANGED <<outbound, auxVars>>

AvatarDbWrite(name, tool) ==
    /\ avatarPath
    /\ avatarDb' = IF name \in DOMAIN avatarDb THEN MapDel(avatarDb, name)
                   ELSE MapPut(avatarDb, name, tool)
    /\ UNCHANGED <<db, tables, coworkerPath, coworkerDb, avatarPath,
                   dataVars, sceneVars, dialogVars, ctlVars>>
    /\ UNCHANGED <<outbound, auxVars>>

----------------------------------------------------------------------------
\* Timers of the scene

\* app.js:969-971 and 869-888: the timer runs createMessageParticle
ParticleTimer ==
    /\ pendingSpawns # <<>>
    /\ pendingSpawns' = Tail(pendingSpawns)
    /\ particles' = Append(particles, [from |-> Head(pendingSpawns).from,
                                       to |-> Head(pendingSpawns).to])
    /\ gpu' = gpu \cup Owned("particle")
    /\ uv' = IF Head(pendingSpawns).current THEN [uv EXCEPT !.spawned = @ + 1] ELSE uv
    /\ UNCHANGED <<serverVars, dataVars, agentMeshes, sceneDesks, connectionLines,
                   sceneLines, dialogVars, calls, dialogs, writer, ld>>
    /\ UNCHANGED <<outbound, auxVars>>

\* A last frame that disposes what the particle was made with
ParticleDone_Disposes ==
    /\ particles # <<>>
    /\ particles' = Tail(particles)
    /\ gpu' = gpu \ Owned("particle")
    /\ UNCHANGED <<serverVars, dataVars, agentMeshes, sceneDesks, connectionLines,
                   sceneLines, pendingSpawns, dialogVars, ctlVars>>
    /\ UNCHANGED <<outbound, auxVars>>

\* app.js:890-911: the frame on which progress reaches 1 removes the particle
\* from the scene; its geometry and material are not disposed
ParticleDone ==
    /\ particles # <<>>
    /\ particles' = Tail(particles)
    /\ gpu' = (IF Len(particles) = 1 THEN gpu \ Owned("particle") ELSE gpu)
                 \cup Owned("finished particle")
    /\ UNCHANGED <<serverVars, dataVars, agentMeshes, sceneDesks, connectionLines,
                   sceneLines, pendingSpawns, dialogVars, ctlVars>>
    /\ UNCHANGED <<outbound, auxVars>>

----------------------------------------------------------------------------
\* loadData (app.js:1147-1182)

\* A body as the endpoint computes it, or the {error: ...} of its catch
Body(value, isError) == IF isError THEN ErrorObject ELSE value

Snapshot(c) == <<c.config, c.messages, c.recipients, c.allMessages, c.avatarStates>>

\* What a failed refresh is said to leave alone
Watched(c) == <<c.config, c.messages, c.recipients, c.allMessages,
                c.agentMeshes, c.connectionLines>>

\* The timers and particles of a pass have run out (app.js:969-971, 887-911)
RunOut(c) ==
    [c EXCEPT !.pendingSpawns = <<>>,
              !.particles = <<>>,
              !.gpu = IF c.pendingSpawns = <<>> /\ c.particles = <<>> THEN @
                      ELSE @ \cup Owned("finished particle"),
              !.uv.spawned = @ + Cardinality({i \in DOMAIN c.pendingSpawns :
                                                 c.pendingSpawns[i].current})]

\* loadData with every request answered, up to the end of its apply step
Refreshed(rErr) ==
    LET c0 == [Client EXCEPT !.config = ApiConfig,
                             !.messages = ArrayOrEmpty(ApiMessages),
                             !.recipients = ArrayOrEmpty(Body(ApiCoworkers, rErr)),
                             !.allMessages = ArrayOrEmpty(ApiMessagesAll)]
        c1 == IF c0.config.avatar THEN [c0 EXCEPT !.avatarStates = ApiAvatars] ELSE c0
    IN Apply(c1, Snapshot(c1) = Snapshot(Client))

\* One poll cycle: a refresh whose awaits are not interleaved with another
\* handler and whose requests all succeed, followed by the 50 ms timers and
\* the 1500 ms particles of its pass, which are over before the next 5 s tick;
\* rErr: the roster request is answered by an error object
RefreshCycle(rErr) ==
    /\ Install(RunOut(Refreshed(rErr)))
    /\ writer' = [v \in Payloads |-> 1]
    /\ UNCHANGED <<serverVars, calls, dialogs, ld>>
    /\ UNCHANGED <<outbound, auxVars>>

\* ---- loadData one await at a time ----

Goto(k, pc) == calls' = [calls EXCEPT ![k].pc = pc]

\* The invocation comes to its end: the try block is left, normally or by the
\* catch of app.js:1179-1181
Finish(k, failed, changed) ==
    /\ calls' = [calls EXCEPT ![k] = [pc |-> "done", changed |-> changed]]
    /\ ld' = [finished |-> TRUE, failed |-> failed, changed |-> changed]

\* app.js:1177-1178 as the last step of invocation k
ApplyAndFinish(k, c) ==
    LET r == Apply(c, Snapshot(c) = Snapshot(Client))
    IN /\ Install(r)
       /\ Finish(k, r.threw, calls[k].changed \/ Watched(r) # Watched(Client))

\* app.js:1726-1727, 1280, 1292, 1348, 1685: the timer or a forced refresh
LoadDataStart(k) ==
    /\ calls[k].pc = "idle"
    /\ IF k = 1 THEN TRUE ELSE calls[k - 1].pc # "idle"
    /\ Goto(k, "fetch")
    /\ UNCHANGED <<serverVars, dataVars, sceneVars, dialogVars, dialogs, writer, uv, ld>>
    /\ UNCHANGED <<outbound, auxVars>>

\* app.js:1149-1154: Promise.all of the four fetches resolves or rejects
FetchSettle(k, ok) ==
    /\ calls[k].pc = "fetch"
    /\ IF ok THEN Goto(k, "config") /\ UNCHANGED ld
       ELSE Finish(k, TRUE, calls[k].changed)
    /\ UNCHANGED <<serverVars, dataVars, sceneVars, dialogVars, dialogs, writer, uv>>
    /\ UNCHANGED <<outbound, auxVars>>

\* app.js:1156: config = await configRes.json()
ConfigJson(k, ok) ==
    /\ calls[k].pc = "config"
    /\ IF ok
       THEN /\ config' = ApiConfig
            /\ writer' = [writer EXCEPT !["config"] = k]
            /\ calls' = [calls EXCEPT ![k] = [pc |-> "bodies",
                                             changed |-> @.changed \/ config # ApiConfig]]
            /\ UNCHANGED ld
       ELSE /\ Finish(k, TRUE, calls[k].changed)
            /\ UNCHANGED <<config, writer>>
    /\ UNCHANGED <<serverVars, messages, allMessages, recipients, avatarStates,
                   sceneVars, dialogVars, dialogs, uv>>
    /\ UNCHANGED <<outbound, auxVars>>

\* Which of inbox, roster and history answer with an error object: at most one
ErrorShapes ==
    { <<FALSE, FALSE, FALSE>>, <<TRUE, FALSE, FALSE>>,
      <<FALSE, TRUE, FALSE>>, <<FALSE, FALSE, TRUE>> }

\* app.js:1157-1178: the three array bodies are parsed (three awaits that
\* touch nothing but locals of the invocation), the three collections are
\* assigned; without avatars the snapshot is applied at once
BodiesJson(k, ok, mErr, rErr, aErr) ==
    /\ calls[k].pc = "bodies"
    /\ IF ok
       THEN LET c == [Client EXCEPT
                        !.messages    = ArrayOrEmpty(Body(ApiMessages, mErr)),
                        !.recipients  = ArrayOrEmpty(Body(ApiCoworkers, rErr)),
                        !.allMessages = ArrayOrEmpty(Body(ApiMessagesAll, aErr))]
            IN /\ writer' = [v \in Payloads |-> IF v = "config" THEN writer[v] ELSE k]
               /\ IF config.avatar
                  THEN /\ Install(c)
                       /\ calls' = [calls EXCEPT ![k] =
                              [pc |-> "avatarFetch",
                               changed |-> @.changed \/ Watched(c) # Watched(Client)]]
                       /\ UNCHANGED ld
                  ELSE ApplyAndFinish(k, c)
       ELSE /\ Finish(k, TRUE, calls[k].changed)
            /\ UNCHANGED <<dataVars, sceneVars, dialogVars, writer, uv>>
    /\ UNCHANGED <<serverVars, dialogs>>
    /\ UNCHANGED <<outbound, auxVars>>

\* app.js:1169, 1171-1174: fetch('/api/avatars') resolves or rejects
AvatarFetch(k, ok) ==
    /\ calls[k].pc = "avatarFetch"
    /\ IF ok
       THEN /\ Goto(k, "avatarJson")
            /\ UNCHANGED <<dataVars, sceneVars, dialogVars, uv, ld>>
       ELSE ApplyAndFinish(k, [Client EXCEPT !.avatarStates = EmptyMap])
    /\ UNCHANGED <<serverVars, dialogs, writer>>
    /\ UNCHANGED <<outbound, auxVars>>

\* app.js:1170-1178
AvatarJson(k, ok) ==
    /\ calls[k].pc = "avatarJson"
    /\ ApplyAndFinish(k, [Client EXCEPT
                            !.avatarStates = IF ok THEN ApiAvatars ELSE EmptyMap])
    /\ UNCHANGED <<serverVars, dialogs, writer>>
    /\ UNCHANGED <<outbound, auxVars>>

\* ---- the desk dialog (app.js:1393-1460, 1521-1523) ----

\* The desks the user clicks
ClickedDesks == {"carol"}

\* handleDeskInteraction hits a desk; showDeskDialog runs up to its await
ShowDeskDialog(agentName) ==
    /\ dialogs = "idle"
    /\ agentName \in DOMAIN agentMeshes
    /\ currentDeskAgent' = toLowerCase(agentName)
    /\ currentTab' = "received"
    /\ dialogs' = "fetch"
    /\ UNCHANGED <<serverVars, dataVars, sceneVars, dialogActive, calls, writer, uv, ld>>
    /\ UNCHANGED <<outbound, auxVars>>

\* switchTab('received') and dialog.classList.add('active'); an exception of
\* updateDeskDialogContent leaves showDeskDialog before the dialog is shown
ShowContent(c) ==
    LET r == updateDeskDialogContent(c)
    IN dialogActive' = IF r.threw THEN dialogActive ELSE TRUE

\* app.js:1448-1459: the fetch and the parse of its body settle (two awaits
\* that touch no variable); allMessages takes the parsed body as it is, or
\* [] when either failed
DialogSettle(ok, isError) ==
    /\ dialogs = "fetch"
    /\ LET body == IF ok THEN Body(ApiMessagesAll, isError) ELSE JsonArray(<<>>)
       IN /\ allMessages' = body
          /\ ShowContent([Client EXCEPT !.allMessages = body])
    /\ writer' = [writer EXCEPT !["allMessages"] = -1]
    /\ dialogs' = "idle"
    /\ UNCHANGED <<serverVars, config, messages, recipients, avatarStates, sceneVars,
                   currentDeskAgent, currentTab, calls, uv, ld>>
    /\ UNCHANGED <<outbound, auxVars>>

\* app.js:1521-1523
closeDeskDialog ==
    /\ dialogActive
    /\ dialogActive' = FALSE
    /\ UNCHANGED <<serverVars, dataVars, sceneVars, currentDeskAgent, currentTab, ctlVars>>
    /\ UNCHANGED <<outbound, auxVars>>

----------------------------------------------------------------------------
Next ==
    \/ \E k \in 1..MaxCalls : LoadDataStart(k)
    \/ \E k \in 1..MaxCalls, ok \in BOOLEAN : FetchSettle(k, ok)
    \/ \E k \in 1..MaxCalls, ok \in BOOLEAN : ConfigJson(k, ok)
    \/ \E k \in 1..MaxCalls, ok \in BOOLEAN, e \in ErrorShapes : BodiesJson(k, ok, e[1], e[2], e[3])
    \/ \E k \in 1..MaxCalls, ok \in BOOLEAN : AvatarFetch(k, ok)
    \/ \E k \in 1..MaxCalls, ok \in BOOLEAN : AvatarJson(k, ok)
    \/ \E agentName \in ClickedDesks : ShowDeskDialog(agentName)
    \/ \E ok, isError \in BOOLEAN : DialogSettle(ok, isError)
    \/ closeDeskDialog

Spec == Init /\ [][Next]_vars

----------------------------------------------------------------------------
NextVillage ==
    \/ \E row \in MailRows : MailboxInsert(row, Len(db) + 1)
    \/ \E id \in 1..MaxRows : PostMarkRead(id)
    \/ \E name \in CoworkerNames : CoworkerDbWrite(name)
    \/ \E name \in {"alice"}, tool \in ToolNames : AvatarDbWrite(name, tool)
    \/ RefreshCycle(FALSE)

SpecVillage == InitVillage /\ [][NextVillage]_vars

----------------------------------------------------------------------------
\* The client polling a backend started on any small mailbox and coworker
\* database; the user marks messages read between polls

StartupRows == MailRows \cup {Row("alice", "carol", FALSE)}

RosterNames == {"Alice", "Bob"}

RECURSIVE Mailboxes(_)
Mailboxes(n) ==
    IF n = 0 THEN {<<>>}
    ELSE Mailboxes(n - 1) \cup
         {Append(m, r) : m \in {x \in Mailboxes(n - 1) : Len(x) = n - 1}, r \in StartupRows}

InitExamples ==
    /\ db \in {Store(m) : m \in Mailboxes(MaxRows)}
    /\ tables = AllTables
    /\ coworkerPath = TRUE
    /\ coworkerDb \in SUBSET RosterNames
    /\ avatarPath = FALSE
    /\ avatarDb = EmptyMap
    /\ InitClient

NextExamples ==
    \/ \E rErr \in BOOLEAN : RefreshCycle(rErr)
    \/ \E id \in 1..MaxRows : PostMarkRead(id)

SpecExamples == InitExamples /\ [][NextExamples]_vars

----------------------------------------------------------------------------
\* The effects of the scene: refreshes, on the timer or forced, arrive while
\* the 50 ms timers and the particles of earlier passes are still under way

\* One loadData whose requests all succeed, without another handler between
\* its awaits
Refresh ==
    /\ Len(pendingSpawns) + Len(particles) < MaxEffects
    /\ Install(Refreshed(FALSE))
    /\ writer' = [v \in Payloads |-> 1]
    /\ UNCHANGED <<serverVars, calls, dialogs, ld>>
    /\ UNCHANGED <<outbound, auxVars>>

InitEffects ==
    /\ db = <<>>
    /\ tables = AllTables
    /\ coworkerPath = TRUE
    /\ coworkerDb = {}
    /\ avatarPath = FALSE
    /\ avatarDb = EmptyMap
    /\ InitClient

NextEffects ==
    \/ \E row \in MailRows : MailboxInsert(row, Len(db) + 1)
    \/ \E id \in 1..MaxRows : PostMarkRead(id)
    \/ Refresh
    \/ ParticleTimer
    \/ ParticleDone

SpecEffects == InitEffects /\ [][NextEffects]_vars

----------------------------------------------------------------------------
\* The backend alone: requests and other agents change the databases

Timestamps == 1..MaxTime

ServerRows == {Row("Alice", "carol", FALSE), Row("bob", "Carol", FALSE)}

SendTargets == {"Alice", Missing}

\* The "from" of a request body (app.js:1313, 1320 send config.user)
SendFroms == {"Bob", Missing}

ServerNames == {"Bob", "bob", "Carol"}

InitServer ==
    /\ db = <<>>
    /\ tables \in SUBSET AllTables
    /\ coworkerPath \in BOOLEAN
    /\ coworkerDb = {}
    /\ avatarPath = FALSE
    /\ avatarDb = EmptyMap
    /\ InitClient

NextServer ==
    \/ \E to \in SendTargets, from \in SendFroms, t \in Timestamps : PostSend(to, from, t)
    \/ \E row \in ServerRows, t \in Timestamps : MailboxInsert(row, t)
    \/ \E id \in 1..MaxRows : PostMarkRead(id)
    \/ \E name \in ServerNames : CoworkerDbWrite(name)

SpecServer == InitServer /\ [][NextServer]_vars

----------------------------------------------------------------------------
\* The user's outbound actions (app.js:1277-1356, 1660-1692) against the
\* backend, between refreshes on the timer

\* How a request ends: answered ok, answered with the 500 of the endpoint's
\* catch (the statement throws on a mailbox that is locked or read-only), or
\* the fetch rejects
Answers == {"ok", "error", "rejected"}

\* The mailbox when the backend starts: empty, or unread messages to the user
ActionMailboxes ==
    { <<>>,
      <<Row("bob", "carol", FALSE)>>,
      <<Row("bob", "carol", FALSE), Row("alice", "carol", FALSE)>> }

\* The values of the recipient select that send something (app.js:1213-1219)
SendChoices == {"@everyone", "alice", "bob"}

SelectOptions ==
    IF recipients.items = <<>> THEN {}
    ELSE {"@everyone"} \cup {recipients.items[i] : i \in DOMAIN recipients.items}

\* The next invocation of loadData
FirstIdle(cs) ==
    CHOOSE k \in DOMAIN cs :
        cs[k].pc = "idle" /\ \A j \in 1..(k - 1) : cs[j].pc # "idle"

loadData_NotCalled(cs) == cs

\* loadData() at the end of a handler (app.js:1280, 1292, 1348, 1685): the
\* invocation runs up to its first await
loadData(cs) == [cs EXCEPT ![FirstIdle(cs)].pc = "fetch"]

\* The invocation that differs between two values of calls, 0 when none does
Started(cs, cs2) == IF cs = cs2 THEN 0 ELSE CHOOSE k \in DOMAIN cs : cs[k] # cs2[k]

\* An invocation of loadData is left for the handler under way
Room == \E k \in DOMAIN calls : calls[k].pc = "idle"

NoHandler == outbound.pc \in {"idle", "done"}

\* The handler comes to its end, having called loadData or not
Return(returned, ok, reload) ==
    /\ calls' = IF reload THEN loadData(calls) ELSE calls
    /\ outbound' = [outbound EXCEPT !.pc = "done", !.returned = returned, !.ok = ok,
                                    !.forced = Started(calls, calls')]

\* The send requests that are not answered with an error, in the order issued
RECURSIVE SendEach(_, _, _, _)
SendEach(rows, targets, failed, i) ==
    IF i > Len(targets) THEN rows
    ELSE SendEach(IF i \in failed THEN rows ELSE InsertSent(rows, targets[i], Len(rows) + 1),
                  targets, failed, i + 1)

\* The mark-read requests of one handler
RECURSIVE MarkReadEach(_, _)
MarkReadEach(rows, ids) ==
    IF ids = {} THEN rows
    ELSE LET id == CHOOSE x \in ids : TRUE
         IN MarkReadEach(MarkRead(rows, id), ids \ {id})

\* sendMessage up to its await (app.js:1298-1323): one fetch per element of
\* recipients for @everyone, one fetch otherwise
sendMessage(to) ==
    /\ NoHandler
    /\ Room
    /\ to \in SelectOptions
    /\ LET targets == IF to = "@everyone" THEN recipients.items ELSE <<to>>
       IN /\ Len(db) + Len(targets) <= MaxRows
          /\ outbound' = [NoAction EXCEPT
                             !.kind = IF to = "@everyone" THEN "broadcast" ELSE "send",
                             !.pc = "await",
                             !.targets = targets,
                             !.roster = Len(recipients.items)]
    /\ UNCHANGED <<serverVars, dataVars, sceneVars, dialogVars, ctlVars, auxVars>>

\* app.js:1323-1355: Promise.all of the sends settles; loadData only when every
\* response is ok, an alert otherwise
SendSettle(failed, rejected) ==
    /\ outbound.pc = "await"
    /\ outbound.kind \in {"send", "broadcast"}
    /\ failed \subseteq DOMAIN outbound.targets
    /\ db' = SendEach(db, outbound.targets, failed, 1)
    /\ LET allSuccessful == failed = {}
       IN Return(~rejected, ~rejected /\ allSuccessful, ~rejected /\ allSuccessful)
    /\ UNCHANGED <<tables, coworkerPath, coworkerDb, avatarPath, avatarDb,
                   dataVars, sceneVars, dialogVars, dialogs, writer, uv, ld, auxVars>>

\* A click on a message card (app.js:1234-1254): markAsRead up to its await
markAsRead(id) ==
    /\ NoHandler
    /\ Room
    /\ \E i \in DOMAIN messages.items : messages.items[i].id = id
    /\ outbound' = [NoAction EXCEPT !.kind = "markRead", !.pc = "await", !.ids = {id}]
    /\ UNCHANGED <<serverVars, dataVars, sceneVars, dialogVars, ctlVars, auxVars>>

\* app.js:1286-1290: one request per unread message of the inbox
markAllAsRead ==
    LET unreadMessages ==
            {i \in DOMAIN messages.items :
                /\ ~messages.items[i].read
                /\ toLowerCase(messages.items[i].recipient) = toLowerCase(config.user)}
    IN /\ NoHandler
       /\ Room
       /\ unreadMessages # {}
       /\ outbound' = [NoAction EXCEPT
                          !.kind = "markAll", !.pc = "await",
                          !.ids = {messages.items[i].id : i \in unreadMessages}]
       /\ UNCHANGED <<serverVars, dataVars, sceneVars, dialogVars, ctlVars, auxVars>>

\* app.js:1279-1283, 1291-1295: the mark-read requests settle; loadData whatever
\* the status of the responses, the catch when a fetch rejects
MarkSettle(answer) ==
    /\ outbound.pc = "await"
    /\ outbound.kind \in {"markRead", "markAll"}
    /\ db' = IF answer = "ok" THEN MarkReadEach(db, outbound.ids) ELSE db
    /\ Return(answer # "rejected", answer = "ok", answer # "rejected")
    /\ UNCHANGED <<tables, coworkerPath, coworkerDb, avatarPath, avatarDb,
                   dataVars, sceneVars, dialogVars, dialogs, writer, uv, ld, auxVars>>

\* A choice button of a message card (app.js:1711): sendQuickResponse up to
\* its first await; the reply goes to the sender of a message of the inbox
sendQuickResponse(to, messageId) ==
    /\ NoHandler
    /\ Room
    /\ Len(db) < MaxRows
    /\ \E i \in DOMAIN messages.items :
          messages.items[i].id = messageId /\ messages.items[i].sender = to
    /\ outbound' = [NoAction EXCEPT !.kind = "quickResponse", !.pc = "await",
                                    !.targets = <<to>>, !.ids = {messageId}]
    /\ UNCHANGED <<serverVars, dataVars, sceneVars, dialogVars, ctlVars, auxVars>>

\* app.js:1662-1672, 1686-1691: the send settles; the handler goes on to mark
\* the message read only when the response is ok
QuickSendSettle(answer) ==
    /\ outbound.pc = "await"
    /\ outbound.kind = "quickResponse"
    /\ db' = SendEach(db, outbound.targets, IF answer = "ok" THEN {} ELSE {1}, 1)
    /\ IF answer = "ok"
       THEN outbound' = [outbound EXCEPT !.pc = "awaitRead"] /\ UNCHANGED calls
       ELSE Return(answer # "rejected", FALSE, FALSE)
    /\ UNCHANGED <<tables, coworkerPath, coworkerDb, avatarPath, avatarDb,
                   dataVars, sceneVars, dialogVars, dialogs, writer, uv, ld, auxVars>>

\* app.js:1670-1685: the mark-read request settles, then loadData
QuickReadSettle(answer) ==
    /\ outbound.pc = "awaitRead"
    /\ db' = IF answer = "ok" THEN MarkReadEach(db, outbound.ids) ELSE db
    /\ Return(answer # "rejected", TRUE, answer # "rejected")
    /\ UNCHANGED <<tables, coworkerPath, coworkerDb, avatarPath, avatarDb,
                   dataVars, sceneVars, dialogVars, dialogs, writer, uv, ld, auxVars>>

\* setInterval(loadData, 5000) (app.js:1727); an invocation is kept for the
\* handler under way
Tick(k) ==
    /\ ~NoHandler => k < MaxCalls
    /\ LoadDataStart(k)

\* An invocation of loadData from its first await to its end, its requests
\* all answered, with the timers and particles of its pass
RunCall(k) ==
    /\ calls[k].pc = "fetch"
    /\ LET r == RunOut(Refreshed(FALSE))
       IN /\ Install(r)
          /\ Finish(k, r.threw, calls[k].changed \/ Watched(r) # Watched(Client))
    /\ writer' = [v \in Payloads |-> k]
    /\ UNCHANGED <<serverVars, dialogs, outbound, auxVars>>

InitActions ==
    /\ db \in {Store(m) : m \in ActionMailboxes}
    /\ tables = AllTables
    /\ coworkerPath = TRUE
    /\ coworkerDb = RosterNames
    /\ avatarPath = FALSE
    /\ avatarDb = EmptyMap
    /\ InitClient

NextActions ==
    \/ \E k \in 1..MaxCalls : Tick(k)
    \/ \E k \in 1..MaxCalls : RunCall(k)
    \/ \E to \in SendChoices : sendMessage(to)
    \/ \E failed \in SUBSET (1..MaxRows), rejected \in BOOLEAN : SendSettle(failed, rejected)
    \/ \E id \in 1..MaxRows : markAsRead(id)
    \/ markAllAsRead
    \/ \E answer \in Answers : MarkSettle(answer)
    \/ \E to \in SendChoices, messageId \in 1..MaxRows : sendQuickResponse(to, messageId)
    \/ \E answer \in Answers : QuickSendSettle(answer)
    \/ \E answer \in Answers : QuickReadSettle(answer)
    \/ \E agentName \in ClickedDesks : ShowDeskDialog(agentName)
    \/ \E ok \in BOOLEAN : DialogSettle(ok, FALSE)
    \/ closeDeskDialog

SpecActions == InitActions /\ [][NextActions]_vars

----------------------------------------------------------------------------
\* getAgentColor (app.js:17-30)

\* A page that has loaded and fetched nothing, against an empty backend
PageLoaded ==
    /\ db = <<>>
    /\ tables = AllTables
    /\ coworkerPath = FALSE
    /\ coworkerDb = {}
    /\ avatarPath = FALSE
    /\ avatarDb = EmptyMap
    /\ ClientAtLoad

agentColors ==
    <<"5EEAD4", "6EE7B7", "7DD3FC", "A78BFA", "FBBF24",
      "F9A8D4", "86EFAC", "93C5FD", "C4B5FD", "67E8F9">>

\* The value of hash is an integer beyond 32 bits: it is held as <<q, r>>,
\* standing for q * 65536 + r with r in 0..65535
Limb == 65536

Norm(q, r) == <<q + (r \div Limb), r % Limb>>

\* hash << 5: ToInt32 of the operand, the result again in 32 bits, signed
ShiftLeft5(h) ==
    LET lo == h[2] * 32
        hi == (h[1] * 32 + (lo \div Limb)) % Limb
    IN <<IF hi >= 32768 THEN hi - Limb ELSE hi, lo % Limb>>

\* name.charCodeAt(i) + ((hash << 5) - hash): the subtraction and the sum
\* are on numbers, without wrapping
HashStep(h, code) ==
    LET shifted == ShiftLeft5(h)
    IN Norm(shifted[1] - h[1], shifted[2] - h[2] + code)

\* app.js:24-27
RECURSIVE HashOf(_, _, _)
HashOf(str, i, h) ==
    IF i > Len(str) THEN h ELSE HashOf(str, i + 1, HashStep(h, str[i]))

\* hash % n of JavaScript: the remainder has the sign of hash
PaletteIndex_NoAbs(h, n) ==
    LET m == ((h[1] % n) * (Limb % n) + h[2]) % n
    IN IF h[1] < 0 THEN -((n - m) % n) ELSE m

\* Math.abs(hash) % n
PaletteIndex(h, n) ==
    LET m == ((h[1] % n) * (Limb % n) + h[2]) % n
    IN IF h[1] < 0 THEN (n - m) % n ELSE m

\* app.js:23-30: what a call returns, with the hash it came from;
\* agentColors[i] is undefined outside the palette
getAgentColor(str) ==
    LET hash  == HashOf(str, 1, <<0, 0>>)
        index == PaletteIndex(hash, Len(agentColors))
    IN [hash |-> hash, index |-> index,
        color |-> IF index \in 0..(Len(agentColors) - 1)
                  THEN agentColors[index + 1] ELSE Missing]

\* Char codes of "a", "z" and U+FFFF
CharCodes == {97, 122, 65535}

\* One more character of the identity string
TypeChar(code) ==
    /\ Len(colorName) < MaxLen
    /\ colorName' = Append(colorName, code)
    /\ colors' = <<>>
    /\ UNCHANGED <<serverVars, dataVars, sceneVars, dialogVars, ctlVars, outbound,
                   ambient, clock, flights, timer>>

\* createAgentDesk and the label code call getAgentColor (app.js:616)
CallGetAgentColor ==
    /\ Len(colors) < MaxCalls
    /\ colors' = Append(colors, getAgentColor(colorName))
    /\ UNCHANGED <<serverVars, dataVars, sceneVars, dialogVars, ctlVars, outbound,
                   colorName, ambient, clock, flights, timer>>

InitColor ==
    /\ PageLoaded
    /\ colorName = <<>>
    /\ colors = <<>>
    /\ ambient = <<>>
    /\ clock = 0
    /\ flights = <<>>
    /\ timer = [set |-> FALSE]

NextColor ==
    \/ \E code \in CharCodes : TypeChar(code)
    \/ CallGetAgentColor

SpecColor == InitColor /\ [][NextColor]_vars

----------------------------------------------------------------------------
\* animate (app.js:1058-1113): the ambient pass of the render loop, in two
\* runs of the same page that are given their frames at different times

\* Math.sin at the quarter periods, scaled to -1..1
Sin(x) == <<0, 1, 0, -1>>[(x % 4) + 1]

\* Geometry captured at creation: the x and the height of two floating
\* particles (app.js:551-555), the phase of the stars (app.js:609), the base
\* intensity of a lamp (app.js:543) and the initial positions of two water
\* vertices (app.js:255-257)
RestX      == <<0, 1>>
RestHeight == <<4, 6>>
twinklePhase  == 1
baseIntensity == 5
initialPositions == <<0, 3>>

\* The ambient state before the first frame
AtCreation ==
    [time |-> 0, frames |-> 0,
     sphere |-> <<0, 0>>, starOpacity |-> 4, starRotation |-> 0,
     heights |-> RestHeight, lamp |-> baseIntensity, water |-> <<0, 0>>]

\* app.js:1058-1113 for one frame at time t
animate(a, t) ==
    [time |-> t, frames |-> Min(a.frames + 1, 2),
     sphere |-> <<t * 15, Sin(t)>>,
     starOpacity |-> 4 + Sin(2 * t + twinklePhase),
     starRotation |-> t * 2,
     heights |-> [i \in DOMAIN a.heights |-> a.heights[i] + Sin(t + RestX[i])],
     lamp |-> baseIntensity * (10 + Sin(t)),
     water |-> [i \in DOMAIN initialPositions |->
                   Sin(initialPositions[i] + t) + Sin(initialPositions[i] + 2 * t)]]

\* requestAnimationFrame delivers the next frame of a run at a later time
Frame(run, t) ==
    /\ t > ambient[run].time
    /\ ambient' = [ambient EXCEPT ![run] = animate(@, t)]
    /\ UNCHANGED <<serverVars, dataVars, sceneVars, dialogVars, ctlVars, outbound,
                   colorName, colors, clock, flights, timer>>

InitAmbient ==
    /\ PageLoaded
    /\ colorName = <<>>
    /\ colors = <<>>
    /\ ambient = <<AtCreation, AtCreation>>
    /\ clock = 0
    /\ flights = <<>>
    /\ timer = [set |-> FALSE]

NextAmbient == \E run \in 1..2, t \in 1..MaxClock : Frame(run, t)

SpecAmbient == InitAmbient /\ [][NextAmbient]_vars

----------------------------------------------------------------------------
\* createMessageParticle and its animateParticle closure (app.js:869-914),
\* with the clock and the frames of the browser

\* const duration = 1500, in units of the clock
duration == 2

\* Math.min(elapsed / duration, 1), in units in which 1 is written duration
Progress(startTime, t) == Min(t - startTime, duration)

\* lerpVectors(from, to, progress) along the line of the two desks, in units
\* in which the desks are duration apart per slot
Lerp(fromPos, toPos, progress) == fromPos * (duration - progress) + toPos * progress

\* The desks a particle flies between, as slots of the layout
FlightEnds == {<<0, 1>>, <<1, 0>>}

animateParticle_KeepsRunning(f, t) ==
    LET progress == Progress(f.startTime, t)
    IN [f EXCEPT !.progress = progress,
                 !.position = Lerp(f.fromPos, f.toPos, progress),
                 !.scheduled = TRUE,
                 !.inScene = @ /\ progress < duration,
                 !.removals = IF progress < duration THEN @ ELSE Min(@ + 1, 2)]

\* app.js:890-911: one run of the closure at time t; it asks for another
\* frame while progress < 1 and removes the particle otherwise
animateParticle(f, t) ==
    LET progress == Progress(f.startTime, t)
    IN [f EXCEPT !.progress = progress,
                 !.position = Lerp(f.fromPos, f.toPos, progress),
                 !.scheduled = progress < duration,
                 !.inScene = @ /\ progress < duration,
                 !.removals = IF progress < duration THEN @ ELSE Min(@ + 1, 2)]

\* app.js:869-888, 913: the particle is added to the scene and the closure
\* runs once at once; a particle is spawned while the clock of the model
\* still reaches the end of its duration
createMessageParticle(fromPos, toPos) ==
    /\ Len(flights) < MaxEffects
    /\ clock + duration <= MaxClock
    /\ flights' = Append(flights,
                     animateParticle([startTime |-> clock, progress |-> 0,
                                      fromPos |-> fromPos, toPos |-> toPos,
                                      position |-> fromPos * duration,
                                      scheduled |-> FALSE, inScene |-> TRUE,
                                      removals |-> 0], clock))
    /\ UNCHANGED <<serverVars, dataVars, sceneVars, dialogVars, ctlVars, outbound,
                   colorName, colors, ambient, clock, timer>>

\* The browser delivers a frame: every closure that asked for it runs
AnimationFrame ==
    /\ \E i \in DOMAIN flights : flights[i].scheduled
    /\ flights' = [i \in DOMAIN flights |->
                      IF flights[i].scheduled THEN animateParticle(flights[i], clock)
                      ELSE flights[i]]
    /\ UNCHANGED <<serverVars, dataVars, sceneVars, dialogVars, ctlVars, outbound,
                   colorName, colors, ambient, clock, timer>>

\* Date.now() moves on
TimePasses ==
    /\ clock < MaxClock
    /\ clock' = clock + 1
    /\ UNCHANGED <<serverVars, dataVars, sceneVars, dialogVars, ctlVars, outbound,
                   colorName, colors, ambient, flights, timer>>

InitParticles ==
    /\ PageLoaded
    /\ colorName = <<>>
    /\ colors = <<>>
    /\ ambient = <<>>
    /\ clock = 0
    /\ flights = <<>>
    /\ timer = [set |-> FALSE]

NextParticles ==
    \/ \E ends \in FlightEnds : createMessageParticle(ends[1], ends[2])
    \/ AnimationFrame
    \/ TimePasses

SpecParticles == InitParticles /\ [][NextParticles]_vars

\* The same with frames that keep being delivered and a clock that moves on
SpecParticlesLive ==
    SpecParticles /\ WF_vars(AnimationFrame) /\ WF_vars(TimePasses)

----------------------------------------------------------------------------
\* Module init (app.js:1724-1727): init(), loadData(), setInterval(loadData,
\* 5000). The refreshes under way are counted by stage; a count that has
\* reached MaxCalls stands for MaxCalls or more.

\* One more, up to the bound
Up(n, bound) == Min(n + 1, bound)

\* One less; MaxCalls or more may stay MaxCalls or more
Down(n) == IF n = MaxCalls THEN {MaxCalls, MaxCalls - 1} ELSE {n - 1}

\* After line 1727: the first loadData is at its first await, the interval is
\* set
TimerSet ==
    [set |-> TRUE, ticks |-> 0, fetching |-> 1, parsing |-> 0,
     last |-> "none", fresh |-> TRUE]

\* The catch of loadData (app.js:1179-1181): the cycle is skipped
Skipped(t) == [t EXCEPT !.last = "failed", !.fresh = FALSE]

TimerTick_StopsOnFailure ==
    /\ timer.set
    /\ timer.last # "failed"
    /\ timer' = [timer EXCEPT !.ticks = Up(@, MaxClock),
                              !.fetching = Up(@, MaxCalls),
                              !.fresh = TRUE]
    /\ UNCHANGED <<serverVars, dataVars, sceneVars, dialogVars, ctlVars, outbound,
                   colorName, colors, ambient, clock, flights>>

\* The interval fires: loadData is called and runs up to its first await
TimerTick ==
    /\ timer.set
    /\ timer' = [timer EXCEPT !.ticks = Up(@, MaxClock),
                              !.fetching = Up(@, MaxCalls),
                              !.fresh = TRUE]
    /\ UNCHANGED <<serverVars, dataVars, sceneVars, dialogVars, ctlVars, outbound,
                   colorName, colors, ambient, clock, flights>>

\* app.js:1149-1154: the fetches of a refresh resolve or one of them rejects
FetchesSettle(ok) ==
    /\ timer.fetching > 0
    /\ \E n \in Down(timer.fetching) :
          timer' = IF ok THEN [timer EXCEPT !.fetching = n, !.parsing = Up(@, MaxCalls)]
                   ELSE Skipped([timer EXCEPT !.fetching = n])
    /\ UNCHANGED <<serverVars, dataVars, sceneVars, dialogVars, ctlVars, outbound,
                   colorName, colors, ambient, clock, flights>>

\* app.js:1156-1178: the bodies parse and the snapshot is applied, or a
\* body does not parse or the apply step throws
RefreshEnds(ok) ==
    /\ timer.parsing > 0
    /\ \E n \in Down(timer.parsing) :
          timer' = IF ok THEN [timer EXCEPT !.parsing = n, !.last = "applied"]
                   ELSE Skipped([timer EXCEPT !.parsing = n])
    /\ UNCHANGED <<serverVars, dataVars, sceneVars, dialogVars, ctlVars, outbound,
                   colorName, colors, ambient, clock, flights>>

\* The render loop runs animate once more (app.js:1058-1059); clock counts
\* the frames
RenderFrame ==
    /\ clock < MaxClock
    /\ clock' = clock + 1
    /\ UNCHANGED <<serverVars, dataVars, sceneVars, dialogVars, ctlVars, outbound,
                   colorName, colors, ambient, flights, timer>>

InitTimer ==
    /\ PageLoaded
    /\ colorName = <<>>
    /\ colors = <<>>
    /\ ambient = <<>>
    /\ clock = 0
    /\ flights = <<>>
    /\ timer = TimerSet

NextTimer ==
    \/ TimerTick
    \/ \E ok \in BOOLEAN : FetchesSettle(ok)
    \/ \E ok \in BOOLEAN : RefreshEnds(ok)
    \/ RenderFrame

SpecTimer == InitTimer /\ [][NextTimer]_vars

\* The browser keeps firing the interval; no request has to settle and no
\* frame has to be drawn
SpecTimerLive == SpecTimer /\ WF_vars(TimerTick)

----------------------------------------------------------------------------
\* The reconcile pass on snapshots with empty names: other agents write rows
\* with an empty sender or recipient (the columns are TEXT NOT NULL, which
\* admits ''), and the coworkers table may hold an empty name

BlankRows ==
    { Row("", "carol", FALSE), Row("Alice", "", FALSE), Row("Alice", "carol", FALSE) }

BlankNames == {"", "Bob"}

InitBlank ==
    /\ db = <<>>
    /\ tables = AllTables
    /\ coworkerPath = TRUE
    /\ coworkerDb = {}
    /\ avatarPath = FALSE
    /\ avatarDb = EmptyMap
    /\ InitClient

NextBlank ==
    \/ \E row \in BlankRows : MailboxInsert(row, Len(db) + 1)
    \/ \E id \in 1..MaxRows : PostMarkRead(id)
    \/ \E name \in BlankNames : CoworkerDbWrite(name)
    \/ RefreshCycle(FALSE)

SpecBlank == InitBlank /\ [][NextBlank]_vars

----------------------------------------------------------------------------
\* What runs in the page next to the reconcile pass: the timers and
\* particles of connectors, a click on a desk and its dialog, a click on a
\* message card with the refresh it forces, refreshes whose requests fail,
\* while another agent adds and deletes a coworker

InitOwnership ==
    /\ db = Store(<<Row("alice", "carol", FALSE)>>)
    /\ tables = AllTables
    /\ coworkerPath = TRUE
    /\ coworkerDb = {}
    /\ avatarPath = FALSE
    /\ avatarDb = EmptyMap
    /\ InitClient

NextOwnership ==
    \/ \E name \in CoworkerNames : CoworkerDbWrite(name)
    \/ Refresh
    \/ ParticleTimer
    \/ ParticleDone
    \/ \E k \in 1..MaxCalls : FetchSettle(k, FALSE)
    \/ \E k \in 1..MaxCalls : RunCall(k)
    \/ \E id \in 1..MaxRows : markAsRead(id)
    \/ \E answer \in {"ok"} : MarkSettle(answer)
    \/ \E agentName \in ClickedDesks : ShowDeskDialog(agentName)
    \/ \E ok \in {TRUE} : DialogSettle(ok, FALSE)

SpecOwnership == InitOwnership /\ [][NextOwnership]_vars

----------------------------------------------------------------------------
\* Overlapping refreshes: the backend answers the requests of an invocation
\* at one moment, and the responses reach the page at another

\* server.ts:102-203, 251-303: the GET endpoints answer the requests of one invocation
Responses ==
    [config |-> ApiConfig, messages |-> ApiMessages,
     recipients |-> ApiCoworkers, allMessages |-> ApiMessagesAll,
     avatars |-> ApiAvatars]

\* The requests of invocation k are answered; the invocation still awaits
Respond(k) ==
    /\ calls[k].pc = "fetch"
    /\ calls' = [calls EXCEPT ![k] = [pc |-> "answered", changed |-> @.changed,
                                     res |-> Responses]]
    /\ UNCHANGED <<serverVars, dataVars, sceneVars, dialogVars, dialogs, writer, uv, ld>>
    /\ UNCHANGED <<outbound, auxVars>>

\* app.js:1156-1178 on the responses an invocation holds
RefreshedWith(res) ==
    LET c0 == [Client EXCEPT !.config = res.config,
                             !.messages = ArrayOrEmpty(res.messages),
                             !.recipients = ArrayOrEmpty(res.recipients),
                             !.allMessages = ArrayOrEmpty(res.allMessages)]
        c1 == IF c0.config.avatar THEN [c0 EXCEPT !.avatarStates = res.avatars] ELSE c0
    IN Apply(c1, Snapshot(c1) = Snapshot(Client))

\* The awaits of invocation k resolve: it assigns what its responses hold and
\* applies it, whichever invocation assigned before
Arrive(k) ==
    /\ calls[k].pc = "answered"
    /\ LET r == RunOut(RefreshedWith(calls[k].res))
       IN /\ Install(r)
          /\ Finish(k, r.threw, calls[k].changed \/ Watched(r) # Watched(Client))
    /\ writer' = [v \in Payloads |-> k]
    /\ UNCHANGED <<serverVars, dialogs, outbound, auxVars>>

InitOverlap ==
    /\ db \in {Store(m) : m \in ActionMailboxes}
    /\ tables = AllTables
    /\ coworkerPath = TRUE
    /\ coworkerDb = RosterNames
    /\ avatarPath = FALSE
    /\ avatarDb = EmptyMap
    /\ InitClient

NextOverlap ==
    \/ RefreshCycle(FALSE)
    \/ \E k \in 1..MaxCalls : Tick(k)
    \/ \E k \in 1..MaxCalls : Respond(k)
    \/ \E k \in 1..MaxCalls : Arrive(k)
    \/ \E id \in 1..MaxRows : markAsRead(id)
    \/ \E answer \in Answers : MarkSettle(answer)

SpecOverlap == InitOverlap /\ [][NextOverlap]_vars

----------------------------------------------------------------------------
\* Properties

Desks == DOMAIN agentMeshes

Items(json) == {json.items[i] : i \in DOMAIN json.items}

\* Two desks on the same ray from the centre: index/count equal as fractions
SameAngle(p, q) == p.index * q.count = q.index * p.count

\* An unread message from one identity to another is in the fetched history
UnreadBetween(from, to) ==
    \E i \in DOMAIN allMessages.items :
        /\ ~allMessages.items[i].read
        /\ toLowerCase(allMessages.items[i].sender) = from
        /\ toLowerCase(allMessages.items[i].recipient) = to

Lines == {i \in DOMAIN connectionLines : connectionLines[i].kind = "line"}

\* The messages of the history that are unread between two desks
UnreadBetweenDesks ==
    {i \in DOMAIN allMessages.items :
        /\ ~allMessages.items[i].read
        /\ toLowerCase(allMessages.items[i].sender) \in Desks
        /\ toLowerCase(allMessages.items[i].recipient) \in Desks}

SomeMalformed == \E m \in Items(messages) \cup Items(allMessages) : Malformed(m)

\* C1: after an updateVillage call that completes, the keys of agentMeshes are
\* exactly the identities computed in the call, each desk is in the scene, and
\* the identity of index i among N stands in slot i of N of the circle, so no
\* two desks share an angle.
C1_DesksAreTheIdentities ==
    uv.completed =>
        /\ Desks = Range(uv.agents)
        /\ sceneDesks = Range(uv.agents)
        /\ Cardinality(Desks) = Len(uv.agents)
        /\ \A i \in DOMAIN uv.agents :
              /\ agentMeshes[uv.agents[i]].position.index = i - 1
              /\ agentMeshes[uv.agents[i]].position.count = Len(uv.agents)
        /\ \A a, b \in Desks :
              a # b => ~SameAngle(agentMeshes[a].position, agentMeshes[b].position)

\* C1 witness: a completed pass with two identities after bob's desk was removed
C1_Witness ==
    /\ uv.completed
    /\ Len(uv.agents) = 2
    /\ "bob" \notin Desks
    /\ <<"bob", "texture">> \in gpu

\* C2: the identities of a completed pass are the lower-cased user, the
\* lower-cased roster and the lower-cased sender and recipient of every message
\* of the full history.
C2_IdentitiesFromFullHistory ==
    uv.completed =>
        Range(uv.agents) =
            {toLowerCase(config.user)}
            \cup {toLowerCase(r) : r \in Items(recipients)}
            \cup {toLowerCase(m.sender) : m \in Items(allMessages)}
            \cup {toLowerCase(m.recipient) : m \in Items(allMessages)}

\* C3: every updateVillage call builds exactly as many connectors as the
\* history has unread messages whose lower-cased sender and recipient both
\* have a desk, and a message that is read or has an endpoint without a desk
\* raises no error, so the call completes.
C3_ConnectorsAreUnreadBetweenDesks ==
    uv.ran =>
        /\ uv.completed
        /\ uv.built = Cardinality(UnreadBetweenDesks)
        /\ Cardinality(Lines) = uv.built
        /\ Len(connectionLines) = (1 + numMarkers) * uv.built
        /\ sceneLines = connectionLines

\* C4: an identity without a desk has no root in the scene and no undisposed
\* GPU resource.
C4_RemovedDeskFullyDisposed ==
    \A n \in Identities :
        n \notin Desks => /\ n \notin sceneDesks
                          /\ \A k \in DeskResources : <<n, k>> \notin gpu

\* C5: a completed pass over the snapshot of the pass before it creates no
\* desk, destroys no desk and regenerates no nameplate texture.
C5_SecondPassRegeneratesNothing ==
    [][ (uv'.identical /\ uv'.completed) =>
            /\ DOMAIN agentMeshes' = DOMAIN agentMeshes
            /\ sceneDesks' = sceneDesks
            /\ \A n \in DOMAIN agentMeshes' : uv'.regens[n] = 0 ]_vars

\* C6: after a completed pass a nameplate is in the alert state iff an unread
\* message from its identity to the user exists, else in the informational
\* state iff an unread message from the user to it exists, else neutral.
C6_BadgePriority ==
    uv.completed =>
        \A n \in Desks :
            agentMeshes[n].label.badge =
                IF UnreadBetween(n, toLowerCase(config.user)) THEN "alert"
                ELSE IF UnreadBetween(toLowerCase(config.user), n) THEN "info"
                ELSE "neutral"

\* C6 witness: a desk with unread messages in both directions shows the alert
C6_Witness ==
    /\ uv.completed
    /\ \E n \in Desks :
          /\ n # toLowerCase(config.user)
          /\ UnreadBetween(n, toLowerCase(config.user))
          /\ UnreadBetween(toLowerCase(config.user), n)
          /\ agentMeshes[n].label.badge = "alert"

\* C7: config, messages, recipients and allMessages, once written by a
\* refresh, all come from one and the same loadData invocation.
C7_PayloadsFromOneRefresh ==
    \A v, w \in Payloads :
        (writer[v] # 0 /\ writer[w] # 0) => writer[v] = writer[w]

\* C8: a loadData invocation that failed changed none of config, messages,
\* recipients, allMessages, agentMeshes and connectionLines.
C8_FailedRefreshChangesNothing ==
    (ld.finished /\ ld.failed) => ~ld.changed

\* C9: a pass over a snapshot that holds a record without sender or recipient
\* completes, and gives a desk to every identity named by a well-formed record
\* of the inbox and a connector to every unread message between two desks.
C9_MalformedRecordSkipped ==
    (uv.ran /\ SomeMalformed) =>
        /\ uv.completed
        /\ \A m \in Items(messages) :
              ~Malformed(m) => {toLowerCase(m.sender), toLowerCase(m.recipient)} \subseteq Desks
        /\ Cardinality(Lines) = Cardinality(UnreadBetweenDesks)

\* C10: messages, recipients and allMessages are arrays in every state.
C10_CollectionsAreArrays ==
    /\ messages.isArray
    /\ recipients.isArray
    /\ allMessages.isArray

\* Slot angle of a desk in degrees, before the fixed offset of -90 degrees
SlotDegrees(p) == (360 * p.index) \div p.count

\* The connectors recorded, as <<sender's desk, recipient's desk>> per line
LineEnds == {<<connectionLines[i].from, connectionLines[i].to>> : i \in Lines}

Participants(json) ==
    {toLowerCase(m.sender) : m \in Items(json)} \cup {toLowerCase(m.recipient) : m \in Items(json)}

\* C11: a refresh whose roster request is answered by an error object while
\* the other requests are answered normally, every record with its sender
\* and recipient, completes its apply step with an
\* empty roster, and its desks are those of the user and of the senders and
\* recipients of the message history.
C11_RosterErrorFallsBack ==
    [][ (RefreshCycle(TRUE) /\ ~SomeMalformed') =>
            /\ uv'.ran /\ uv'.completed
            /\ recipients' = JsonArray(<<>>)
            /\ DOMAIN agentMeshes' = {toLowerCase(config'.user)} \cup Participants(allMessages') ]_vars

\* The example of C12 as the client holds it after the refresh
C12_Scenario ==
    /\ uv.ran
    /\ toLowerCase(config.user) = "carol"
    /\ recipients.items = <<"alice", "bob">>
    /\ allMessages.items = <<Stored(Row("alice", "carol", FALSE), 1, 1)>>

\* C12 as stated: roster [alice, bob], user carol, history [alice -> carol,
\* unread] give three desks with alice at 0, bob at 120 and carol at 240
\* degrees, one connector from alice to carol and none at bob.
C12_ExampleAlphabetical ==
    C12_Scenario =>
        /\ uv.completed
        /\ Desks = {"alice", "bob", "carol"}
        /\ SlotDegrees(agentMeshes["alice"].position) = 0
        /\ SlotDegrees(agentMeshes["bob"].position) = 120
        /\ SlotDegrees(agentMeshes["carol"].position) = 240
        /\ LineEnds = {<<"alice", "carol">>}
        /\ Cardinality(Lines) = 1

\* C12 amended: the same example gives three desks in the order of insertion
\* into the identity set, the user first and then the roster: carol at 0,
\* alice at 120 and bob at 240 degrees (each turned by the fixed -90 degrees),
\* one connector from alice to carol and none at bob.
C12_ExampleInsertionOrder ==
    C12_Scenario =>
        /\ uv.completed
        /\ Desks = {"alice", "bob", "carol"}
        /\ SlotDegrees(agentMeshes["carol"].position) = 0
        /\ SlotDegrees(agentMeshes["alice"].position) = 120
        /\ SlotDegrees(agentMeshes["bob"].position) = 240
        /\ LineEnds = {<<"alice", "carol">>}
        /\ Cardinality(Lines) = 1

\* C12 witness: the example has been polled and reconciled
C12_Witness == C12_Scenario /\ uv.completed /\ Cardinality(sceneDesks) = 3

\* C16: after every refresh that completes, every name of the coworker
\* database other than the user has a desk in the map and in the scene,
\* whether or not a message names it.
C16_CoworkersHaveDesks ==
    [][ (RefreshCycle(FALSE) /\ uv'.ran /\ uv'.completed) =>
            \A n \in coworkerDb :
                toLowerCase(n) # toLowerCase(User) =>
                    /\ toLowerCase(n) \in DOMAIN agentMeshes'
                    /\ toLowerCase(n) \in sceneDesks' ]_vars

\* C16 witness: bob, named by no message, has his desk beside a mailbox in use
C16_Witness ==
    /\ uv.completed
    /\ "Bob" \in coworkerDb
    /\ "bob" \in Desks /\ "bob" \in sceneDesks
    /\ allMessages.items # <<>>
    /\ "bob" \notin Participants(allMessages)

\* A list of rows is in descending timestamp order
Descending(rows) ==
    \A i, j \in DOMAIN rows : i < j => rows[i].timestamp >= rows[j].timestamp

C18_InboxIsHistoryToUser ==
    LET inbox == ApiMessages.items
        all   == ApiMessagesAll.items
    IN /\ ApiMessages.isArray /\ ApiMessagesAll.isArray
       /\ Range(all) = Range(db) /\ Len(all) = Len(db)
       /\ Range(inbox) = {m \in Range(all) : m.recipient = toLowerCase(User)}
       /\ Len(inbox) = Cardinality(Range(inbox))
       /\ Descending(inbox) /\ Descending(all)
       /\ "messages" \notin tables => inbox = <<>> /\ all = <<>>

\* C18 witness: the history answers against rowid order; one row is addressed
\* to the user and one to "Carol"
C18_Witness ==
    /\ Len(db) = 2
    /\ db[1].recipient = "Carol" /\ db[2].recipient = "carol"
    /\ db[1].timestamp < db[2].timestamp
    /\ ApiMessages.items = <<db[2]>>
    /\ ApiMessagesAll.items = <<db[2], db[1]>>

\* The sender's and recipient's desk of every unread message of the history
\* between two desks, in the order of the history
RECURSIVE EligibleEnds(_)
EligibleEnds(ms) ==
    IF ms = <<>> THEN <<>>
    ELSE LET m == Head(ms)
         IN IF /\ ~m.read
               /\ toLowerCase(m.sender) \in Desks
               /\ toLowerCase(m.recipient) \in Desks
            THEN <<<<toLowerCase(m.sender), toLowerCase(m.recipient)>>>> \o EligibleEnds(Tail(ms))
            ELSE EligibleEnds(Tail(ms))

\* The ends of the lines recorded, in the order of the list
RecordedEnds ==
    LET ls == SelectSeq(connectionLines, LAMBDA o : o.kind = "line")
    IN [i \in DOMAIN ls |-> <<ls[i].from, ls[i].to>>]

\* C13: the lines and markers in the scene are those recorded in
\* connectionLines, and they are the ones the most recent updateVillage call
\* built from its snapshot: one line and numMarkers markers per connector
\* built, for a call that completed one connector per unread message between
\* two desks; nothing of an earlier call is left in the scene.
C13_ConnectorsOfLastCallOnly ==
    /\ sceneLines = connectionLines
    /\ Len(connectionLines) = (1 + numMarkers) * uv.built
    /\ Cardinality(Lines) = uv.built
    /\ uv.completed => RecordedEnds = EligibleEnds(allMessages.items)

\* C13 witness: a call built nothing where the call before it had built a
\* connector, whose timer or particle is still under way
C13_Witness ==
    /\ uv.completed
    /\ uv.built = 0
    /\ connectionLines = <<>> /\ sceneLines = <<>>
    /\ Owned("removed connector") \subseteq gpu
    /\ pendingSpawns # <<>> \/ particles # <<>>

\* C14: nothing a removed connector, a removed marker or a finished particle
\* was made with is left undisposed.
C14_TransientsDisposed ==
    /\ Owned("removed connector") \cap gpu = {}
    /\ Owned("finished particle") \cap gpu = {}

CurrentPending == {i \in DOMAIN pendingSpawns : pendingSpawns[i].current}

\* C15: in every pass each unread message of the history between two desks
\* has exactly one particle, spawned or on its timer, and no other message
\* has one.
C15_OneParticlePerEligibleMessage ==
    uv.ran =>
        /\ uv.spawned + Cardinality(CurrentPending) = Cardinality(UnreadBetweenDesks)
        /\ uv.spawned + Cardinality(CurrentPending) = uv.built

----------------------------------------------------------------------------
\* The read flags by message id, in a payload of the client and in the backend
ReadFlags(json) == {<<json.items[i].id, json.items[i].read>> : i \in DOMAIN json.items}

BackendFlags == {<<db[i].id, db[i].read>> : i \in DOMAIN db}

\* The step in which the mark-read requests of a handler are answered
MarkStep ==
    /\ \/ outbound.pc = "await" /\ outbound.kind \in {"markRead", "markAll"}
       \/ outbound.pc = "awaitRead"
    /\ outbound'.pc = "done"

C20_ForcedRefreshOnceReturned ==
    (outbound.pc = "done" /\ outbound.returned) => outbound.forced # 0

\* C20 (amended): when a handler comes to its end it has started a loadData
\* invocation exactly when its requests have all returned and, for sendMessage
\* (single or @everyone) and sendQuickResponse, every send was answered ok;
\* markAsRead and markAllAsRead start it whatever the status of the answers.
\* The invocation started is a new one, no other invocation is touched, and a
\* broadcast issues one send per roster entry, each stored when all are ok.
C20_ForcedRefreshAfterSuccess ==
    [][ (outbound.pc # "done" /\ outbound'.pc = "done") =>
          /\ outbound'.forced # 0 <=>
                /\ outbound'.returned
                /\ outbound.kind \in {"markRead", "markAll"} \/ outbound'.ok
          /\ outbound'.forced # 0 =>
                /\ calls[outbound'.forced].pc = "idle"
                /\ calls' = [calls EXCEPT ![outbound'.forced].pc = "fetch"]
          /\ outbound'.forced = 0 => calls' = calls
          /\ outbound.kind = "broadcast" =>
                /\ Len(outbound.targets) = outbound.roster
                /\ outbound'.ok => Len(db') = Len(db) + outbound.roster
      ]_vars

\* A broadcast to a roster of two has come to its end with both sends
\* answered ok and a loadData invocation started
C20_Witness ==
    /\ outbound.kind = "broadcast"
    /\ outbound.pc = "done"
    /\ outbound.roster = 2
    /\ outbound.ok
    /\ outbound.forced # 0

----------------------------------------------------------------------------
\* A request to POST /api/send is answered in this step
SendStep == \E to \in SendTargets, from \in SendFroms, t \in Timestamps : PostSend(to, from, t)

\* The step leaves every stored row in place, with its fields as they were
\* but for a read flag that goes from 0 to 1
RowsKept ==
    /\ Len(db') >= Len(db)
    /\ \A i \in DOMAIN db :
          /\ [db'[i] EXCEPT !.read = db[i].read] = db[i]
          /\ db[i].read => db'[i].read

----------------------------------------------------------------------------
\* min(20, max(10, 3N)) written out by cases
ClampedRadius(n) == IF 3 * n < 10 THEN 10 ELSE IF 3 * n > 20 THEN 20 ELSE 3 * n

\* The place of an identity in the list the last reconcile worked on
SlotOf(name) == CHOOSE i \in DOMAIN uv.agents : uv.agents[i] = name

\* C25: for every number N >= 1 of identities the layout radius is
\* min(20, max(10, 3N)), lies in 10..20 and does not decrease when N grows;
\* after a completed reconcile every desk, new or kept, is in the slot of
\* its identity on the circle of the radius of that reconcile, at the
\* platform height.
C25_RadiusClampedAndDesksOnCircle ==
    /\ \A n \in 1..MaxAgents :
          /\ DeskPosition(0, n).radius = ClampedRadius(n)
          /\ DeskPosition(0, n).radius \in 10..20
          /\ DeskPosition(0, n).radius <= DeskPosition(0, n + 1).radius
    /\ uv.completed =>
          \A name \in DOMAIN agentMeshes :
             /\ name \in Range(uv.agents)
             /\ agentMeshes[name].position =
                   [index |-> SlotOf(name) - 1, count |-> Len(uv.agents),
                    radius |-> ClampedRadius(Len(uv.agents)),
                    y |-> PLATFORM_HEIGHT]

\* A completed reconcile of three identities: the desk of the user is in
\* slot 0 and another desk in slot 2 of 3
C25_Witness ==
    /\ uv.completed
    /\ Len(uv.agents) = 3
    /\ \E name \in DOMAIN agentMeshes : agentMeshes[name].position.index = 2
    /\ agentMeshes[toLowerCase(User)].position.index = 0

----------------------------------------------------------------------------
\* c + 31 * hash over the characters, for strings short enough not to wrap
RECURSIVE Horner31(_, _, _)
Horner31(str, i, h) ==
    IF i > Len(str) THEN h ELSE Horner31(str, i + 1, str[i] + 31 * h)

\* C24: every call of getAgentColor returns the palette entry at an index in
\* 0..9, and calls with the same string return the same entry; the empty
\* string gives index 0, and a string of up to four characters, whose hash
\* stays within 32 bits, gives the index of its rolling hash c + 31 * hash.
C24_ColorIsPureAndInPalette ==
    \A i \in DOMAIN colors :
       /\ colors[i].index \in 0..9
       /\ colors[i].color = agentColors[colors[i].index + 1]
       /\ colors[i] = colors[1]
       /\ colorName = <<>> => colors[i].index = 0
       /\ Len(colorName) <= 4 => colors[i].index = Horner31(colorName, 1, 0) % 10

\* Two calls with a string whose hash went through a wrapping shift and
\* ended negative
C24_Witness ==
    /\ Len(colors) = 2
    /\ colors[1].hash[1] < 0

----------------------------------------------------------------------------
\* The ambient state of a run without the count of its frames
AmbientState(a) ==
    <<a.sphere, a.starOpacity, a.starRotation, a.heights, a.lamp, a.water>>

\* C23: two runs whose last frame was at the same time value are in the same
\* ambient state, however many frames each was given before
C23_AmbientStatelessAcrossTicks ==
    (/\ ambient[1].frames > 0
     /\ ambient[2].frames > 0
     /\ ambient[1].time = ambient[2].time)
        => AmbientState(ambient[1]) = AmbientState(ambient[2])

----------------------------------------------------------------------------
\* C22: each particle is in the scene exactly while it has not been removed,
\* it is removed at most once, it asks for another frame exactly while it is
\* in the scene, and its progress is below 1 while it is in the scene. In
\* every step a particle either stays as it is or takes the state that its
\* own spawn time and the time of the frame give it, whatever the other
\* particles are doing, and a removed particle never changes again. With
\* frames that keep being delivered every particle is eventually removed.
C22_ParticleLifecycleIndependent ==
    /\ [](\A i \in DOMAIN flights :
             LET f == flights[i]
             IN /\ f.inScene <=> f.removals = 0
                /\ f.removals <= 1
                /\ f.scheduled <=> f.inScene
                /\ f.inScene => f.progress < duration
                /\ ~f.inScene => f.progress = duration)
    /\ [][\A i \in DOMAIN flights :
             /\ flights'[i] # flights[i] =>
                   /\ flights[i].inScene
                   /\ flights'[i].startTime = flights[i].startTime
                   /\ flights'[i].fromPos = flights[i].fromPos
                   /\ flights'[i].toPos = flights[i].toPos
                   /\ flights'[i].position =
                         Lerp(flights[i].fromPos, flights[i].toPos, flights'[i].progress)
                   /\ flights'[i].progress = Min(clock - flights[i].startTime, duration)
                   /\ flights'[i].inScene <=> clock - flights[i].startTime < duration
             /\ ~flights[i].inScene => flights'[i] = flights[i]]_vars
    /\ \A i \in 1..MaxEffects :
          (i \in DOMAIN flights) ~> (i \in DOMAIN flights /\ flights[i].removals = 1)

\* Two particles spawned at different times: the first has been removed,
\* the second is half way and still in the scene
C22_Witness ==
    /\ Len(flights) = 2
    /\ flights[1].startTime < flights[2].startTime
    /\ flights[1].fromPos # flights[2].fromPos
    /\ flights[1].removals = 1
    /\ flights[2].inScene
    /\ flights[2].progress = 1

----------------------------------------------------------------------------
\* C21: a refresh is under way when the page has loaded; the interval stays
\* set and can fire in every state, whatever refreshes are under way or have
\* failed and however many frames were drawn; every tick starts a refresh;
\* and after a failed cycle a new refresh is eventually started.
C21_TicksNeverStop ==
    /\ (timer.fetching = 1 /\ timer.ticks = 0 /\ timer.set)
    /\ [](timer.set /\ ENABLED TimerTick)
    /\ [][timer'.ticks > timer.ticks =>
             /\ timer'.fresh
             /\ timer.fetching < MaxCalls => timer'.fetching = timer.fetching + 1]_vars
    /\ (timer.last = "failed" /\ ~timer.fresh) ~> timer.fresh

\* A cycle has failed while another refresh is still under way, a tick has
\* started a new refresh since, and no frame was drawn
C21_Witness ==
    /\ timer.last = "failed"
    /\ timer.fresh
    /\ timer.fetching = MaxCalls
    /\ timer.ticks >= 2
    /\ clock = 0

----------------------------------------------------------------------------
\* C26: no desk is ever created under an empty or undefined key
C26_NoDeskWithEmptyKey ==
    /\ "" \notin DOMAIN agentMeshes
    /\ Missing \notin DOMAIN agentMeshes

----------------------------------------------------------------------------
\* A step in which updateVillage runs: a refresh comes to its apply step
ReconcileStep ==
    \/ Refresh
    \/ \E k \in 1..MaxCalls : RunCall(k)

\* The resources of effects: removed from the scene they are relabelled,
\* never disposed
Relabelled(r) ==
    \/ r \in Owned("connector") /\ Owned("removed connector") \subseteq gpu'
    \/ r \in Owned("particle") /\ Owned("finished particle") \subseteq gpu'

\* C27: only a step in which updateVillage runs changes the key set of
\* agentMeshes, and a resource is disposed only in such a step, only one of
\* the disposed kinds, and only of a desk that step removes; the particle
\* timers and frames, desk clicks and the dialog, a failed loadData and the
\* handlers of the outbound actions leave both alone.
C27_OnlyReconcileChangesMembership ==
    [][ /\ DOMAIN agentMeshes' # DOMAIN agentMeshes => ReconcileStep
        /\ \A r \in gpu \ gpu' :
              \/ Relabelled(r)
              \/ /\ ReconcileStep
                 /\ r[1] \in DOMAIN agentMeshes \ DOMAIN agentMeshes'
                 /\ r[2] \in Disposed ]_vars

\* Bob's desk was made and removed again, a particle has flown, the dialog is
\* open, a refresh has failed and markAsRead has returned
C27_Witness ==
    /\ "bob" \notin DOMAIN agentMeshes
    /\ <<"bob", "texture">> \in gpu
    /\ Owned("finished particle") \subseteq gpu
    /\ dialogActive
    /\ outbound.pc = "done"
    /\ ld.finished /\ ld.failed

----------------------------------------------------------------------------
\* Invocation k assigns and applies what its responses hold
Applies(k) == calls[k].pc = "answered" /\ calls'[k].pc = "done"

ShownRead(inbox) == {inbox.items[i].id : i \in {j \in DOMAIN inbox.items : inbox.items[j].read}}

\* C28: invocations of loadData apply their snapshots in the order they were
\* started: none applies after one started later has applied, and a message
\* the inbox shows as read is not shown as unread again by a later apply.
C28_SnapshotsAppliedInStartOrder ==
    [][ \A k \in DOMAIN calls :
          Applies(k) =>
            /\ \A j \in DOMAIN calls : j > k => calls[j].pc # "done"
            /\ ShownRead(messages) \subseteq ShownRead(messages') ]_vars

----------------------------------------------------------------------------
\* The snapshot last applied holds an unread message from one desk to another
UnreadInSnapshot(from, to) ==
    /\ from \in DOMAIN agentMeshes
    /\ to \in DOMAIN agentMeshes
    /\ \E i \in DOMAIN allMessages.items :
          /\ ~allMessages.items[i].read
          /\ toLowerCase(allMessages.items[i].sender) = from
          /\ toLowerCase(allMessages.items[i].recipient) = to

\* C29: a particle is put into the scene only by the timer of a connector
\* that no later updateVillage has torn down, and only for a message that is
\* unread, with a desk at both ends, in the snapshot applied last.
C29_NoParticleAfterTeardown ==
    [][ Len(particles') > Len(particles) =>
          /\ Head(pendingSpawns).current
          /\ UnreadInSnapshot(Head(pendingSpawns).from, Head(pendingSpawns).to) ]_vars

============================================================================
